---- MODULE Spec2Model ----
(***************************************************************************)
(* State-machine model of src/app.py (a Streamlit field-survey app).       *)
(*                                                                         *)
(* Streamlit executes the whole script top to bottom once per user event   *)
(* ("script run"); st.rerun() stops the run and schedules another one.     *)
(* A user event is modelled as an action that stores the widget value,     *)
(* runs the widget's on_change callback and leaves a run pending; the      *)
(* action ScriptRun is one complete execution of the script.               *)
(*                                                                         *)
(* Coordinates are fixed-point integers in units of 1e-7 degree.           *)
(* An optional value (None, NaN, a key missing from st.session_state, a    *)
(* missing file) is the empty sequence; a present value x is <<x>>.        *)
(***************************************************************************)
EXTENDS Integers, Sequences, FiniteSets, TLC

None == <<>>
Some(x) == <<x>>

Range(f) == {f[i] : i \in DOMAIN f}

Abs(x) == IF x < 0 THEN 0 - x ELSE x

(***************************************************************************)
(* Program constants                                                       *)
(***************************************************************************)
\* 35.6895 and 139.6917 degrees, the fixed default point
DEFAULT_LAT == 356895000
DEFAULT_LON == 1396917000
\* 0.000001 degree, the click tolerance
CLICK_TOLERANCE == 10
\* 0.5 degree, the largest span of a road download
MAX_SPAN == 5000000

\* every name a partition file can carry between FILE_PREFIX and the final
\* ".csv", in sorted() order
ProjectOrder == <<"alpha", "b", "b.csv", "default">>
ProjectNames == Range(ProjectOrder)

\* line 30: what .replace(FILE_PREFIX, "").replace(".csv", "") leaves of the
\* file name survey_data_<stem>.csv
project_name(stem) == IF stem = "b.csv" THEN "b" ELSE stem

\* the columns of a partition file (in the source: 日付, 時間, lat, lon, 種名,
\* 方法, 採集者, 備考)
ALL_COLS == {"date", "time", "lat", "lon", "species", "method", "collector", "notes"}

required_cols_no_species == {"date", "time", "lat", "lon"}
required_cols == {"date", "time", "lat", "lon", "species"}

(***************************************************************************)
(* Bounds of the model                                                     *)
(***************************************************************************)
\* records a partition may hold before the forms stop being submitted
MaxRecords == 1
\* appends explored by the record-store specification
MaxAppends == 3
\* elements in a response of the geodata service
MaxElements == 2
\* rows of a stored partition at session start (initialisation spec)
MaxInitRows == 2

(***************************************************************************)
(* Record store: CSV persistence                                           *)
(***************************************************************************)
\* A DataFrame is a sequence of rows [lat, lon, species, notes]; each value
\* is optional (None is NaN).  A file is None (absent) or Some(rows as
\* written by to_csv).

\* DataFrame.to_csv: NaN and the empty string are both written as an empty
\* cell.
to_csv_cell(v) == IF v = Some("") THEN None ELSE v

to_csv(df) ==
    [i \in 1..Len(df) |->
        [lat |-> df[i].lat, lon |-> df[i].lon,
         species |-> to_csv_cell(df[i].species),
         notes |-> to_csv_cell(df[i].notes)]]

\* pd.read_csv: an empty cell is read back as NaN.
read_csv(rows) == rows

load_data(fs, p) ==
    IF fs[p] # None THEN read_csv(fs[p][1]) ELSE <<>>

append_data_overwrite(fs, p, new_record) ==
    [fs EXCEPT ![p] = Some(to_csv(<<new_record>>))]
append_data(fs, p, new_record) ==
    LET df == load_data(fs, p)
    IN [fs EXCEPT ![p] = Some(to_csv(df \o <<new_record>>))]

save_dataframe(fs, p, df) == [fs EXCEPT ![p] = Some(to_csv(df))]

\* DataFrame.dropna(subset=['lat', 'lon'])
dropna(df) == SelectSeq(df, LAMBDA r : r.lat # None /\ r.lon # None)

get_existing_projects(fs) ==
    LET found == SelectSeq(ProjectOrder, LAMBDA p : fs[p] # None)
        projects == [i \in 1..Len(found) |-> project_name(found[i])]
    IN IF projects = <<>> THEN <<"default">> ELSE projects

(***************************************************************************)
(* State                                                                   *)
(***************************************************************************)
VARIABLES
    files,            \* project name -> partition file (None | Some(rows))
    roads_file,       \* offline_roads.geojson (None | Some(features))
    road_cache,       \* st.cache_data of load_road_geojson (None | Some(value))
    current_project,  \* st.session_state.current_project
    selected_lat,     \* st.session_state.selected_lat (canonical coordinate)
    selected_lon,
    input_lat,        \* st.session_state.input_lat (number_input mirror)
    input_lon,
    map_bounds,       \* st.session_state.map_bounds
    last_notes,       \* st.session_state.last_notes
    tracking,         \* the "track map bounds" checkbox
    uploaded,         \* the file held by the file_uploader
    last_clicked,     \* the map component's reported last_clicked
    comp_bounds,      \* the map component's reported bounds
    pending,          \* TRUE while a script run is scheduled
    trigger,          \* the user event the pending run serves
    render,           \* centre of the map built by the last run that built one
    map_args,         \* arguments of the map component at its last render
    net,              \* the geodata request made by the last run, if any
    msgs,             \* status messages shown by the last run
    submitted,        \* the record appended by the last run, with the
                      \* canonical coordinate read at that moment
    buttons,          \* widgets rendered by the last run
    appended,         \* every record handed to append_data, in order
    other             \* a second session's append_data on the same partition:
                      \* the frame it has loaded and not yet saved, and the
                      \* records it has saved

vars == <<files, roads_file, road_cache, current_project, selected_lat,
          selected_lon, input_lat, input_lon, map_bounds, last_notes, tracking,
          uploaded,
          last_clicked, comp_bounds, pending, trigger, render, map_args, net,
          msgs, submitted, buttons, appended, other>>

NoTrigger == [kind |-> "none", arg |-> ""]

(***************************************************************************)
(* The script.  A run threads a record s through the script's sections in  *)
(* source order.  s holds everything the run can change; s.rerun is set    *)
(* where the script calls st.rerun(), which skips the rest of the script.  *)
(***************************************************************************)

\* The parts of the state a run starts from; per-run outputs start empty.
RunStart ==
    [files |-> files, roads_file |-> roads_file, road_cache |-> road_cache,
     current_project |-> current_project,
     selected_lat |-> selected_lat, selected_lon |-> selected_lon,
     input_lat |-> input_lat, input_lon |-> input_lon,
     input_api |-> FALSE,
     map_bounds |-> map_bounds, last_notes |-> last_notes,
     last_clicked |-> last_clicked, comp_bounds |-> comp_bounds,
     render |-> render, map_args |-> map_args,
     net |-> None, msgs |-> {}, submitted |-> None, buttons |-> {},
     appended |-> appended, road_data |-> None, rerun |-> FALSE]

\* variant of select_project that keeps a current project it cannot find
select_project_keeps_unknown(s, t) ==
    LET existing_projects == get_existing_projects(s.files)
        cur == IF s.current_project = None THEN existing_projects[1]
               ELSE s.current_project[1]
        selected_project ==
            IF t.kind = "select" /\ t.arg \in Range(existing_projects)
            THEN t.arg ELSE cur
    IN [s EXCEPT !.current_project = Some(selected_project)]

\* lines 117-131: project selection
select_project(s, t) ==
    LET existing_projects == get_existing_projects(s.files)
        cur == IF s.current_project = None THEN existing_projects[1]
               ELSE s.current_project[1]
        hit == {i \in DOMAIN existing_projects : existing_projects[i] = cur}
        current_index == IF hit = {} THEN 1
                         ELSE CHOOSE i \in hit : \A j \in hit : i <= j
        selected_project ==
            IF t.kind = "select" /\ t.arg \in Range(existing_projects)
            THEN t.arg ELSE existing_projects[current_index]
    IN [s EXCEPT !.current_project = Some(selected_project)]

\* lines 133-146: creation of a project; the trigger carries the content of
\* the name field when the button was pressed
create_project(s, t) ==
    LET existing_projects == get_existing_projects(s.files)
        new_proj_name == t.arg
        s1 == [s EXCEPT !.buttons = @ \cup {"create"}]
    IN IF t.kind # "create" THEN s1
       ELSE IF new_proj_name # "" /\ new_proj_name \notin Range(existing_projects)
       THEN [s1 EXCEPT !.current_project = Some(new_proj_name),
                       !.files = save_dataframe(@, new_proj_name, <<>>),
                       !.msgs = @ \cup {"created"}, !.rerun = TRUE]
       ELSE IF new_proj_name \in Range(existing_projects)
       THEN [s1 EXCEPT !.msgs = @ \cup {"name_exists"}]
       ELSE [s1 EXCEPT !.msgs = @ \cup {"name_missing"}]

DATA_FILE(s) == s.current_project[1]

\* variant of import_flow whose merge skips batch rows already stored
import_flow_merge_dedupes(s, t, up) ==
    IF up = None THEN s
    ELSE IF ~up[1].ok THEN [s EXCEPT !.msgs = @ \cup {"read_error"}]
    ELSE IF required_cols \subseteq up[1].cols
    THEN LET import_df == up[1].rows
             s1 == [s EXCEPT !.msgs = @ \cup {"read_ok"},
                             !.buttons = @ \cup {"merge", "overwrite"}]
         IN IF t.kind = "merge"
            THEN LET current_df == load_data(s1.files, DATA_FILE(s1))
                     merged_df == current_df \o SelectSeq(import_df,
                                      LAMBDA r : r \notin Range(current_df))
                 IN [s1 EXCEPT !.files = save_dataframe(@, DATA_FILE(s1), merged_df),
                               !.msgs = @ \cup {"merged"},
                               !.rerun = TRUE]
            ELSE IF t.kind = "overwrite"
            THEN [s1 EXCEPT !.files = save_dataframe(@, DATA_FILE(s1), import_df),
                            !.msgs = @ \cup {"overwritten"},
                            !.rerun = TRUE]
            ELSE s1
    ELSE [s EXCEPT !.msgs = @ \cup {"schema_error"}]

\* lines 171-198: import of an uploaded CSV.  up is None or
\* Some([ok, cols, rows]): ok is whether pd.read_csv can parse the upload.
import_flow(s, t, up) ==
    IF up = None THEN s
    ELSE IF ~up[1].ok THEN [s EXCEPT !.msgs = @ \cup {"read_error"}]
    ELSE IF required_cols \subseteq up[1].cols
    THEN LET import_df == up[1].rows
             s1 == [s EXCEPT !.msgs = @ \cup {"read_ok"},
                             !.buttons = @ \cup {"merge", "overwrite"}]
         IN IF t.kind = "merge"
            THEN LET current_df == load_data(s1.files, DATA_FILE(s1))
                     merged_df == current_df \o import_df
                 IN [s1 EXCEPT !.files = save_dataframe(@, DATA_FILE(s1), merged_df),
                               !.msgs = @ \cup {"merged"},
                               !.rerun = TRUE]
            ELSE IF t.kind = "overwrite"
            THEN [s1 EXCEPT !.files = save_dataframe(@, DATA_FILE(s1), import_df),
                            !.msgs = @ \cup {"overwritten"},
                            !.rerun = TRUE]
            ELSE s1
    ELSE [s EXCEPT !.msgs = @ \cup {"schema_error"}]

\* lines 211-226: the canonical coordinate is seeded once per session
init_selected(s) ==
    IF s.selected_lat # None THEN s
    ELSE LET df_init == load_data(s.files, DATA_FILE(s))
             valid_df == dropna(df_init)
         IN IF df_init # <<>> /\ valid_df # <<>>
            THEN LET last_rec == valid_df[Len(valid_df)]
                 IN [s EXCEPT !.selected_lat = last_rec.lat,
                              !.selected_lon = last_rec.lon]
            ELSE [s EXCEPT !.selected_lat = Some(DEFAULT_LAT),
                           !.selected_lon = Some(DEFAULT_LON)]

\* lines 228-232: the guard ("not x or x == 0", per component)
guard_both(s) ==
    IF s.selected_lat = None \/ s.selected_lat = Some(0)
       \/ s.selected_lon = None \/ s.selected_lon = Some(0)
    THEN [s EXCEPT !.selected_lat = Some(DEFAULT_LAT),
                   !.selected_lon = Some(DEFAULT_LON)]
    ELSE s
guard(s) ==
    LET s1 == IF s.selected_lat = None \/ s.selected_lat = Some(0)
              THEN [s EXCEPT !.selected_lat = Some(DEFAULT_LAT)] ELSE s
    IN IF s1.selected_lon = None \/ s1.selected_lon = Some(0)
       THEN [s1 EXCEPT !.selected_lon = Some(DEFAULT_LON)] ELSE s1

\* lines 234-237: the number_input mirror is seeded when it is missing
init_input(s) ==
    LET s1 == IF s.input_lat = None
              THEN [s EXCEPT !.input_lat = s.selected_lat, !.input_api = TRUE]
              ELSE s
    IN IF s1.input_lon = None
       THEN [s1 EXCEPT !.input_lon = s1.selected_lon, !.input_api = TRUE]
       ELSE s1

\* lines 258-260: on_change callback of both number inputs
update_form_coords_lat_only(in_lat, in_lon, sel_lat, sel_lon) ==
    [lat |-> in_lat, lon |-> sel_lon]
update_form_coords(in_lat, in_lon, sel_lat, sel_lon) ==
    [lat |-> in_lat, lon |-> in_lon]

\* lines 35-43: load_road_geojson under st.cache_data.  The cache holds
\* None (nothing cached) or Some(v), v the cached return value, itself
\* None (no overlay) or Some(features).
load_road_geojson(s) ==
    IF s.road_cache # None
    THEN [s EXCEPT !.road_data = s.road_cache[1]]
    ELSE [s EXCEPT !.road_cache = Some(s.roads_file),
                   !.road_data = s.roads_file]

\* lines 80-92: the elements of the response converted to features
convert_features(elements) ==
    SelectSeq(elements, LAMBDA e : e.type = "way" /\ e.geometry)

\* lines 67-109.  resp is the service's answer: kind "transport" (the
\* request raises), "parse" (response.json() raises) or "ok" with elements.
download_roads_for_bounds_write_first(rf, rc, resp) ==
    IF resp.kind # "ok"
    THEN [success |-> FALSE, msg |-> "download_error", roads_file |-> rf, road_cache |-> rc]
    ELSE LET features == convert_features(resp.elements)
         IN [success |-> features # <<>>,
             msg |-> IF features = <<>> THEN "not_found" ELSE "downloaded",
             roads_file |-> Some(features), road_cache |-> None]
download_roads_for_bounds(rf, rc, resp) ==
    IF resp.kind # "ok"
    THEN [success |-> FALSE, msg |-> "download_error", roads_file |-> rf, road_cache |-> rc]
    ELSE LET features == convert_features(resp.elements)
         IN IF features = <<>>
            THEN [success |-> FALSE, msg |-> "not_found", roads_file |-> rf, road_cache |-> rc]
            ELSE [success |-> TRUE, msg |-> "downloaded",
                  roads_file |-> Some(features), road_cache |-> None]

\* line 300: the size guard of a download
box_too_large_lat_only(b) == Abs(b.north - b.south) > MAX_SPAN
box_too_large(b) ==
    LET lat_diff == Abs(b.north - b.south)
        lon_diff == Abs(b.east - b.west)
    IN lat_diff > MAX_SPAN \/ lon_diff > MAX_SPAN

\* lines 288-313: the download button
road_download(s, t, track, resp) ==
    IF ~track THEN s
    ELSE LET s1 == [s EXCEPT !.buttons = @ \cup {"download"}]
         IN IF t.kind # "download" THEN s1
            ELSE IF s1.map_bounds = None
            THEN [s1 EXCEPT !.msgs = @ \cup {"no_bounds"}]
            ELSE LET b == s1.map_bounds[1]
                 IN IF box_too_large(b)
                    THEN [s1 EXCEPT !.msgs = @ \cup {"too_large"}]
                    ELSE LET r == download_roads_for_bounds(
                                      s1.roads_file, s1.road_cache, resp)
                         IN [s1 EXCEPT !.net = Some([box |-> b, resp |-> resp]),
                                       !.roads_file = r.roads_file,
                                       !.road_cache = r.road_cache,
                                       !.msgs = @ \cup {r.msg},
                                       !.rerun = r.success]

\* lines 315-325: the delete button
road_delete_keeps_cache(s, t) ==
    IF s.road_data = None THEN s
    ELSE LET s1 == [s EXCEPT !.buttons = @ \cup {"delete"}]
         IN IF t.kind = "delete" /\ s1.roads_file # None
            THEN [s1 EXCEPT !.roads_file = None,
                            !.msgs = @ \cup {"deleted"}, !.rerun = TRUE]
            ELSE s1
road_delete(s, t) ==
    IF s.road_data = None THEN s
    ELSE LET s1 == [s EXCEPT !.buttons = @ \cup {"delete"}]
         IN IF t.kind = "delete" /\ s1.roads_file # None
            THEN [s1 EXCEPT !.roads_file = None, !.road_cache = None,
                            !.msgs = @ \cup {"deleted"}, !.rerun = TRUE]
            ELSE s1

\* lines 327-431: the map is built around the canonical coordinate, with a
\* marker for every stored row that dropna keeps
map_build(s, track) ==
    LET center == [lat |-> s.selected_lat[1], lon |-> s.selected_lon[1]]
        df_clean == dropna(load_data(s.files, DATA_FILE(s)))
    IN [s EXCEPT !.render = Some([center |-> center, markers |-> df_clean,
                                  roads |-> s.road_data, bounds |-> track])]

\* lines 437-442: st_folium.  The component keeps reporting its last value;
\* when the map it is given differs from the one it last showed it may be
\* mounted afresh (remount), and then reports nothing.
st_folium(s, remount) ==
    IF remount /\ s.render # s.map_args
    THEN [s EXCEPT !.last_clicked = None, !.comp_bounds = None,
                   !.map_args = s.render]
    ELSE [s EXCEPT !.map_args = s.render]

\* variant of click_moves without the tolerance test
click_moves_any_click(c, sel_lat, sel_lon) ==
    c.lat # 0 /\ c.lon # 0
\* variant of click_moves that compares the latitude only
click_moves_lat_only(c, sel_lat, sel_lon) ==
    /\ c.lat # 0 /\ c.lon # 0
    /\ Abs(c.lat - sel_lat) > CLICK_TOLERANCE
\* lines 452-454: whether a reported click moves the canonical coordinate
click_moves(c, sel_lat, sel_lon) ==
    /\ c.lat # 0 /\ c.lon # 0
    /\ \/ Abs(c.lat - sel_lat) > CLICK_TOLERANCE
       \/ Abs(c.lon - sel_lon) > CLICK_TOLERANCE

\* lines 444-460: what the map reported
map_data_handling(s, track) ==
    LET s1 == IF track /\ s.comp_bounds # None
              THEN [s EXCEPT !.map_bounds = s.comp_bounds] ELSE s
    IN IF s1.last_clicked = None THEN s1
       ELSE LET c == s1.last_clicked[1]
            IN IF click_moves(c, s1.selected_lat[1], s1.selected_lon[1])
               THEN [s1 EXCEPT !.selected_lat = Some(c.lat),
                               !.selected_lon = Some(c.lon),
                               !.input_lat = Some(c.lat),
                               !.input_lon = Some(c.lon),
                               !.input_api = TRUE,
                               !.rerun = TRUE]
               ELSE s1

\* lines 467-471: the two number inputs are rendered
number_inputs(s) == [s EXCEPT !.buttons = @ \cup {"input_lat", "input_lon"}]

\* lines 488-494: the coordinate the quick form records
quick_coords(sel_lat, sel_lon) ==
    IF sel_lat = None \/ sel_lat = Some(0)
    THEN [lat |-> Some(DEFAULT_LAT), lon |-> Some(DEFAULT_LON), warned |-> TRUE]
    ELSE [lat |-> sel_lat, lon |-> sel_lon, warned |-> FALSE]

\* lines 473-515: quick record form (t.arg is the species text)
quick_record_form(s, t) ==
    LET s1 == [s EXCEPT !.buttons = @ \cup {"quick"}]
    IN IF t.kind # "quick" THEN s1
       ELSE IF t.arg # ""
       THEN LET rc == quick_coords(s1.selected_lat, s1.selected_lon)
                new_quick_record ==
                    [lat |-> rc.lat, lon |-> rc.lon, species |-> Some(t.arg),
                     notes |-> Some(s1.last_notes)]
            IN [s1 EXCEPT
                  !.files = append_data(@, DATA_FILE(s1), new_quick_record),
                  !.appended = Append(@, new_quick_record),
                  !.submitted = Some([form |-> "quick", rec |-> new_quick_record,
                                      sel_lat |-> s1.selected_lat,
                                      sel_lon |-> s1.selected_lon]),
                  !.msgs = @ \cup {"recorded"}
                           \cup (IF rc.warned THEN {"default_used"} ELSE {}),
                  !.rerun = TRUE]
       ELSE [s1 EXCEPT !.msgs = @ \cup {"species_missing"}]

\* lines 519-536: the settings form; the trigger carries the notes text the
\* form was submitted with
settings_form(s, t) ==
    LET s1 == [s EXCEPT !.buttons = @ \cup {"settings"}]
    IN IF t.kind # "settings" THEN s1
       ELSE [s1 EXCEPT !.last_notes = t.arg,
                       !.msgs = @ \cup {"settings_updated"}]

\* lines 559-560: the coordinate the detailed form records
manual_coords(s) == [lat |-> s.input_lat, lon |-> s.input_lon]

\* variant of manual_record_form that refuses a zero latitude
manual_record_form_needs_latitude(s, t) ==
    LET s1 == [s EXCEPT !.buttons = @ \cup {"manual"}]
    IN IF t.kind # "manual" THEN s1
       ELSE IF t.arg # "" /\ s1.input_lat # Some(0)
       THEN LET rc == manual_coords(s1)
                new_record ==
                    [lat |-> rc.lat, lon |-> rc.lon, species |-> Some(t.arg),
                     notes |-> Some(s1.last_notes)]
            IN [s1 EXCEPT
                  !.files = append_data(@, DATA_FILE(s1), new_record),
                  !.appended = Append(@, new_record),
                  !.submitted = Some([form |-> "manual", rec |-> new_record,
                                      sel_lat |-> s1.selected_lat,
                                      sel_lon |-> s1.selected_lon]),
                  !.msgs = @ \cup {"recorded"}]
       ELSE [s1 EXCEPT !.msgs = @ \cup {"species_missing"}]
\* lines 540-579: detailed record form (no st.rerun() after the append)
manual_record_form(s, t) ==
    LET s1 == [s EXCEPT !.buttons = @ \cup {"manual"}]
    IN IF t.kind # "manual" THEN s1
       ELSE IF t.arg # ""
       THEN LET rc == manual_coords(s1)
                new_record ==
                    [lat |-> rc.lat, lon |-> rc.lon, species |-> Some(t.arg),
                     notes |-> Some(s1.last_notes)]
            IN [s1 EXCEPT
                  !.files = append_data(@, DATA_FILE(s1), new_record),
                  !.appended = Append(@, new_record),
                  !.submitted = Some([form |-> "manual", rec |-> new_record,
                                      sel_lat |-> s1.selected_lat,
                                      sel_lon |-> s1.selected_lon]),
                  !.msgs = @ \cup {"recorded"}]
       ELSE [s1 EXCEPT !.msgs = @ \cup {"species_missing"}]

\* variant of data_editor that saves only the rows with coordinates
data_editor_saves_located(s, t) ==
    LET current_df == load_data(s.files, DATA_FILE(s))
        edited_df == dropna(current_df)
        s1 == [s EXCEPT !.buttons = @ \cup {"save"}]
    IN IF t.kind = "save"
       THEN [s1 EXCEPT !.files = save_dataframe(@, DATA_FILE(s1), edited_df),
                       !.msgs = @ \cup {"saved"}, !.rerun = TRUE]
       ELSE s1
\* lines 582-594: the data editor, left unedited (it returns the frame it
\* was given), and its save button
data_editor(s, t) ==
    LET current_df == load_data(s.files, DATA_FILE(s))
        edited_df == current_df
        s1 == [s EXCEPT !.buttons = @ \cup {"save"}]
    IN IF t.kind = "save"
       THEN [s1 EXCEPT !.files = save_dataframe(@, DATA_FILE(s1), edited_df),
                       !.msgs = @ \cup {"saved"}, !.rerun = TRUE]
       ELSE s1

(***************************************************************************)
(* Inputs explored                                                         *)
(***************************************************************************)
\* 35.0 degrees and points 1e-6 (inside the tolerance) and 1.1e-6 (outside)
\* away from it; 0 is the sentinel component
LatInputs == {0, 350000000, 350000010, 350000011}
LonInputs == {0, 1390000000, 1390000011}
ClickPoints == {[lat |-> a, lon |-> o] : a \in LatInputs, o \in LonInputs}

SpeciesInputs == {"", "moth"}

\* the record store specification tells appended records apart by species
\* and by two click points
StoreSpecies == {"", "moth", "owlet"}
StorePoints == {[lat |-> 350000000, lon |-> 1390000000],
                [lat |-> 360000000, lon |-> 1400000000]}

\* stored rows a session can start from: valid, sentinel and NaN coordinates
InitCells == {None, Some(0), Some(350000000)}
InitRows == {[lat |-> a, lon |-> o, species |-> Some("moth"), notes |-> None] :
                a \in InitCells, o \in InitCells}

RECURSIVE SeqsUpTo(_, _)
SeqsUpTo(S, n) ==
    IF n = 0 THEN {<<>>}
    ELSE LET shorter == SeqsUpTo(S, n - 1)
         IN shorter \cup {Append(q, x) : q \in shorter, x \in S}

\* uploads: unparsable, or parsed with a set of columns and rows; a row of
\* a batch without the species column has NaN there
BatchRow(cols) ==
    [lat |-> Some(350000000), lon |-> Some(1390000000),
     species |-> IF "species" \in cols THEN Some("moth") ELSE None,
     notes |-> None]
BatchCols == {ALL_COLS, required_cols, ALL_COLS \ {"species"}, ALL_COLS \ {"lat"},
              ALL_COLS \ {"date"}, {"species"}}
Batches ==
    {[ok |-> FALSE, cols |-> {}, rows |-> <<>>]} \cup
    {[ok |-> TRUE, cols |-> c,
      rows |-> [i \in 1..n |-> [BatchRow(c) EXCEPT !.lon = Some(@[1] + i - 1)]]] :
        c \in BatchCols, n \in 0..2}

\* map viewports: latitude spans 0.4, 0.5, 0.5000001 and 0.6 degree,
\* longitude spans 0.2 and 0.6 degree
Boxes == {[south |-> 350000000, west |-> 1390000000,
           north |-> 350000000 + h, east |-> 1390000000 + w] :
             h \in {4000000, 5000000, 5000001, 6000000},
             w \in {2000000, 6000000}}

\* answers of the geodata service
Elements == {[type |-> "way", geometry |-> TRUE, id |-> "w1"],
             [type |-> "way", geometry |-> TRUE, id |-> "w2"],
             [type |-> "way", geometry |-> FALSE, id |-> "w3"],
             [type |-> "node", geometry |-> TRUE, id |-> "n1"]}
NoResponse == [kind |-> "transport", elements |-> <<>>]
Responses ==
    {NoResponse, [kind |-> "parse", elements |-> <<>>]} \cup
    {[kind |-> "ok", elements |-> es] : es \in SeqsUpTo(Elements, MaxElements)}

(***************************************************************************)
(* User events.  Each is accepted when no run is pending, stores the       *)
(* widget's value and schedules a run of the script.                       *)
(***************************************************************************)
Schedule(kind, arg) ==
    /\ ~pending
    /\ pending' = TRUE
    /\ trigger' = [kind |-> kind, arg |-> arg]

\* the user clicks the map at p
ClickMap(p) ==
    /\ Schedule("click", "")
    /\ render # None
    /\ last_clicked' = Some(p)
    /\ UNCHANGED <<files, roads_file, road_cache, current_project, selected_lat,
                   selected_lon, input_lat, input_lon, map_bounds, last_notes,
                   tracking, uploaded, comp_bounds, render, map_args, net, msgs,
                   submitted, buttons, appended, other>>

\* the user edits a number input; on_change (update_form_coords) runs
\* before the script does
EditInput(new_lat, new_lon) ==
    /\ Schedule("input", "")
    /\ "input_lat" \in buttons
    /\ <<new_lat, new_lon>> # <<input_lat, input_lon>>
    /\ input_lat' = new_lat
    /\ input_lon' = new_lon
    /\ LET c == update_form_coords(new_lat, new_lon, selected_lat, selected_lon)
       IN /\ selected_lat' = c.lat
          /\ selected_lon' = c.lon
    /\ UNCHANGED <<files, roads_file, road_cache, current_project, map_bounds,
                   last_notes, tracking, uploaded, last_clicked, comp_bounds,
                   render, map_args, net, msgs, submitted, buttons, appended, other>>

EditLat(v) ==
    /\ "input_lat" \in buttons
    /\ EditInput(Some(v), input_lon)

EditLon(v) ==
    /\ "input_lon" \in buttons
    /\ EditInput(input_lat, Some(v))

Untouched ==
    UNCHANGED <<files, roads_file, road_cache, current_project, selected_lat,
                selected_lon, input_lat, input_lon, map_bounds, last_notes,
                tracking, uploaded, last_clicked, comp_bounds, render, map_args,
                net, msgs, submitted, buttons, appended, other>>

StoredRows == Len(load_data(files, current_project[1]))

\* the user submits the quick / the detailed form with a species text
SubmitQuick(species, max) ==
    /\ "quick" \in buttons
    /\ StoredRows < max
    /\ Schedule("quick", species)
    /\ Untouched

SubmitManual(species, max) ==
    /\ "manual" \in buttons
    /\ StoredRows < max
    /\ Schedule("manual", species)
    /\ Untouched

\* the user puts a file into the uploader
Upload(batch) ==
    /\ Schedule("upload", "")
    /\ uploaded # Some(batch)
    /\ uploaded' = Some(batch)
    /\ UNCHANGED <<files, roads_file, road_cache, current_project, selected_lat,
                   selected_lon, input_lat, input_lon, map_bounds, last_notes,
                   tracking, last_clicked, comp_bounds, render, map_args, net,
                   msgs, submitted, buttons, appended, other>>

\* a button can be pressed when the last run rendered it
PressMerge(max) ==
    /\ "merge" \in buttons
    /\ StoredRows < max
    /\ Schedule("merge", "")
    /\ Untouched

PressOverwrite ==
    /\ "overwrite" \in buttons
    /\ Schedule("overwrite", "")
    /\ Untouched

PressDownload ==
    /\ "download" \in buttons
    /\ Schedule("download", "")
    /\ Untouched

PressDelete ==
    /\ "delete" \in buttons
    /\ Schedule("delete", "")
    /\ Untouched

\* the user picks a project in the select box
SelectProject(p) ==
    /\ current_project # None
    /\ p \in Range(get_existing_projects(files))
    /\ Schedule("select", p)
    /\ Untouched

\* the user presses the create button with name in the name field
CreateProject(name) ==
    /\ "create" \in buttons
    /\ Schedule("create", name)
    /\ Untouched

\* a partition file disappears from the directory (removed outside the app)
PartitionRemoved(p) ==
    /\ ~pending
    /\ files[p] # None
    /\ files' = [files EXCEPT ![p] = None]
    /\ UNCHANGED <<roads_file, road_cache, current_project, selected_lat,
                   selected_lon, input_lat, input_lon, map_bounds, last_notes,
                   tracking, uploaded, last_clicked, comp_bounds, pending,
                   trigger, render, map_args, net, msgs, submitted, buttons,
                   appended, other>>

\* the user submits the settings form with a notes text
ApplySettings(notes) ==
    /\ "settings" \in buttons
    /\ notes # last_notes
    /\ Schedule("settings", notes)
    /\ Untouched

\* the user presses the save button under the unedited data editor
PressSave ==
    /\ "save" \in buttons
    /\ Schedule("save", "")
    /\ Untouched

\* lines 57-58 of append_data, run by a second session on the partition
\* "default": the file is loaded and the new row is made
OtherLoad(new_record, max) ==
    /\ other.loaded = None
    /\ Len(other.saved) < max
    /\ other' = [other EXCEPT !.loaded = Some([df |-> load_data(files, "default"),
                                              rec |-> new_record])]
    /\ UNCHANGED <<files, roads_file, road_cache, current_project, selected_lat,
                   selected_lon, input_lat, input_lon, map_bounds, last_notes,
                   tracking, uploaded, last_clicked, comp_bounds, pending,
                   trigger, render, map_args, net, msgs, submitted, buttons,
                   appended>>

\* variant of OtherSave that writes the new row alone
OtherSave_writes_row_alone ==
    /\ other.loaded # None
    /\ files' = [files EXCEPT !["default"] = Some(to_csv(<<other.loaded[1].rec>>))]
    /\ other' = [loaded |-> None, saved |-> Append(other.saved, other.loaded[1].rec)]
    /\ UNCHANGED <<roads_file, road_cache, current_project, selected_lat,
                   selected_lon, input_lat, input_lon, map_bounds, last_notes,
                   tracking, uploaded, last_clicked, comp_bounds, pending,
                   trigger, render, map_args, net, msgs, submitted, buttons,
                   appended>>
\* lines 59-60 of append_data in the second session: the loaded frame plus
\* the new row is written over the file
OtherSave ==
    /\ other.loaded # None
    /\ files' = [files EXCEPT !["default"] =
                    Some(to_csv(other.loaded[1].df \o <<other.loaded[1].rec>>))]
    /\ other' = [loaded |-> None, saved |-> Append(other.saved, other.loaded[1].rec)]
    /\ UNCHANGED <<roads_file, road_cache, current_project, selected_lat,
                   selected_lon, input_lat, input_lon, map_bounds, last_notes,
                   tracking, uploaded, last_clicked, comp_bounds, pending,
                   trigger, render, map_args, net, msgs, submitted, buttons,
                   appended>>

ToggleTracking ==
    /\ "tracking" \in buttons
    /\ Schedule("toggle", "")
    /\ tracking' = ~tracking
    /\ UNCHANGED <<files, roads_file, road_cache, current_project, selected_lat,
                   selected_lon, input_lat, input_lon, map_bounds, last_notes,
                   uploaded, last_clicked, comp_bounds, render, map_args, net,
                   msgs, submitted, buttons, appended, other>>

\* the map reports its viewport (only when "bounds" was asked for)
MapMove(b) ==
    /\ Schedule("bounds", "")
    /\ render # None /\ render[1].bounds
    /\ comp_bounds # Some(b)
    /\ comp_bounds' = Some(b)
    /\ UNCHANGED <<files, roads_file, road_cache, current_project, selected_lat,
                   selected_lon, input_lat, input_lon, map_bounds, last_notes,
                   tracking, uploaded, last_clicked, render, map_args, net, msgs,
                   submitted, buttons, appended, other>>

\* The end of a run: the state the run leaves.  Streamlit may discard the
\* state of the widgets the run did not reach (drop); a value the run
\* itself stored through st.session_state is kept.
Finish(s, drop) ==
    LET lost == drop /\ s.rerun /\ "input_lat" \notin s.buttons /\ ~s.input_api
    IN /\ files' = s.files
       /\ roads_file' = s.roads_file
       /\ road_cache' = s.road_cache
       /\ current_project' = s.current_project
       /\ selected_lat' = s.selected_lat
       /\ selected_lon' = s.selected_lon
       /\ input_lat' = IF lost THEN None ELSE s.input_lat
       /\ input_lon' = IF lost THEN None ELSE s.input_lon
       /\ map_bounds' = s.map_bounds
       /\ tracking' = IF drop /\ s.rerun /\ "tracking" \notin s.buttons
                      THEN FALSE ELSE tracking
       /\ last_clicked' = s.last_clicked
       /\ comp_bounds' = s.comp_bounds
       /\ render' = s.render
       /\ map_args' = s.map_args
       /\ net' = s.net
       /\ msgs' = s.msgs
       /\ submitted' = s.submitted
       /\ buttons' = s.buttons
       /\ appended' = s.appended
       /\ pending' = s.rerun
       /\ trigger' = NoTrigger
       /\ last_notes' = s.last_notes
       /\ UNCHANGED <<uploaded, other>>

\* One execution of src/app.py, lines 117-597, for the pending event: the
\* sections in source order.  st.rerun() ends the run: once rerun is set
\* the later sections are skipped.  resp is the geodata service's answer
\* should the run ask for one, remount whether the map component is
\* mounted afresh.
ScriptRun ==
    /\ pending
    /\ \E resp \in (IF trigger.kind = "download" THEN Responses ELSE {NoResponse}),
          remount \in BOOLEAN, drop \in BOOLEAN :
       \E a \in {select_project(RunStart, trigger)} :
       \E a1 \in {create_project(a, trigger)} :
       \E b \in {IF a1.rerun THEN a1 ELSE import_flow(a1, trigger, uploaded)} :
       \E c \in {IF b.rerun THEN b ELSE init_selected(b)} :
       \E d \in {IF c.rerun THEN c ELSE guard(c)} :
       \E e \in {IF d.rerun THEN d ELSE init_input(d)} :
       \E f \in {IF e.rerun THEN e ELSE [e EXCEPT !.buttons = @ \cup {"tracking"}]} :
       \E g \in {IF f.rerun THEN f ELSE load_road_geojson(f)} :
       \E h \in {IF g.rerun THEN g ELSE road_download(g, trigger, tracking, resp)} :
       \E i \in {IF h.rerun THEN h ELSE road_delete(h, trigger)} :
       \E j \in {IF i.rerun THEN i ELSE map_build(i, tracking)} :
       \E k \in {IF j.rerun THEN j ELSE st_folium(j, remount)} :
       \E l \in {IF k.rerun THEN k ELSE map_data_handling(k, tracking)} :
       \E m \in {IF l.rerun THEN l ELSE number_inputs(l)} :
       \E n \in {IF m.rerun THEN m ELSE quick_record_form(m, trigger)} :
       \E n1 \in {IF n.rerun THEN n ELSE settings_form(n, trigger)} :
       \E o \in {IF n1.rerun THEN n1 ELSE manual_record_form(n1, trigger)} :
       \E o1 \in {IF o.rerun THEN o ELSE data_editor(o, trigger)} :
          Finish(o1, drop)

(***************************************************************************)
(* Specifications                                                          *)
(***************************************************************************)
NoFiles == [p \in ProjectNames |-> None]

\* a new session: nothing in st.session_state, the first run pending
InitSession ==
    /\ current_project = None
    /\ selected_lat = None /\ selected_lon = None
    /\ input_lat = None /\ input_lon = None
    /\ map_bounds = None
    /\ last_notes = ""
    /\ tracking = FALSE
    /\ uploaded = None
    /\ last_clicked = None /\ comp_bounds = None
    /\ pending = TRUE /\ trigger = NoTrigger
    /\ render = None /\ map_args = None
    /\ net = None /\ msgs = {} /\ submitted = None /\ buttons = {}
    /\ appended = <<>>
    /\ other = [loaded |-> None, saved |-> <<>>]

\* Coordinate selection: clicks, manual inputs and submissions on a project
\* that is absent or empty.
Init ==
    /\ InitSession
    /\ files \in {NoFiles, [NoFiles EXCEPT !["default"] = Some(<<>>)]}
    /\ roads_file = None /\ road_cache = None

Next ==
    \/ ScriptRun
    \/ \E p \in ClickPoints : ClickMap(p)
    \/ \E v \in LatInputs : EditLat(v)
    \/ \E v \in LonInputs : EditLon(v)
    \/ \E sp \in SpeciesInputs : SubmitQuick(sp, MaxRecords)
    \/ \E sp \in SpeciesInputs : SubmitManual(sp, MaxRecords)

Spec == Init /\ [][Next]_vars

\* The redraw cycle: clicks, typed zeros and quick submissions, with every
\* scheduled run eventually executed (Streamlit runs the script for each
\* widget event and each st.rerun()).
CyclePoints == {p \in ClickPoints : p.lon # 1390000011}

NextCycle ==
    \/ ScriptRun
    \/ \E p \in CyclePoints : ClickMap(p)
    \/ \E v \in {0} : EditLat(v)
    \/ \E v \in {0} : EditLon(v)
    \/ \E sp \in {"moth"} : SubmitQuick(sp, MaxRecords)

SpecCycle == Init /\ [][NextCycle]_vars /\ WF_vars(ScriptRun)

\* Record store: appends to a project that is absent or empty.
NextStore ==
    \/ ScriptRun
    \/ \E p \in StorePoints : ClickMap(p)
    \/ \E sp \in StoreSpecies : SubmitQuick(sp, MaxAppends)
    \/ \E sp \in StoreSpecies : SubmitManual(sp, MaxAppends)

SpecStore == Init /\ [][NextStore]_vars

\* Submissions under varying coordinates and settings.
NotesInputs == {"", "dusk"}

NextForms ==
    \/ ScriptRun
    \/ \E p \in StorePoints : ClickMap(p)
    \/ \E v \in {0, 350000000} : EditLat(v)
    \/ \E notes \in NotesInputs : ApplySettings(notes)
    \/ \E sp \in SpeciesInputs : SubmitQuick(sp, MaxRecords + 1)
    \/ \E sp \in SpeciesInputs : SubmitManual(sp, MaxRecords + 1)

SpecForms == Init /\ [][NextForms]_vars

\* Two sessions appending to the partition "default": this session's
\* submissions and the append_data of a second session, step by step.
OtherRecord == [lat |-> Some(360000000), lon |-> Some(1400000000),
                species |-> Some("owlet"), notes |-> None]

NextSessions ==
    \/ ScriptRun
    \/ \E sp \in {"moth"} : SubmitQuick(sp, MaxAppends)
    \/ \E sp \in {"moth"} : SubmitManual(sp, MaxAppends)
    \/ OtherLoad(OtherRecord, MaxRecords + 1)
    \/ OtherSave

SpecSessions == Init /\ [][NextSessions]_vars

\* Session initialisation over a stored partition.
InitStored ==
    /\ InitSession
    /\ \E rows \in SeqsUpTo(InitRows, MaxInitRows) :
          files = [NoFiles EXCEPT !["default"] = Some(rows)]
    /\ roads_file = None /\ road_cache = None

NextStored ==
    \/ ScriptRun
    \/ \E p \in StorePoints : ClickMap(p)
    \/ PressSave

SpecStored == InitStored /\ [][NextStored]_vars

\* Import of an uploaded batch.
InitImport ==
    /\ InitSession
    /\ files \in {NoFiles,
                  [NoFiles EXCEPT !["default"] = Some(<<BatchRow(ALL_COLS)>>)]}
    /\ roads_file = None /\ road_cache = None

NextImport ==
    \/ ScriptRun
    \/ \E b \in Batches : Upload(b)
    \/ PressMerge(MaxRecords + 2)
    \/ PressOverwrite

SpecImport == InitImport /\ [][NextImport]_vars

\* Road overlay: download and delete.
InitRoads ==
    /\ InitSession
    /\ files = NoFiles
    /\ roads_file \in {None, Some(<<[type |-> "way", geometry |-> TRUE, id |-> "w0"]>>)}
    /\ road_cache = None

NextRoads ==
    \/ ScriptRun
    \/ ToggleTracking
    \/ \E b \in Boxes : MapMove(b)
    \/ PressDownload
    \/ PressDelete

SpecRoads == InitRoads /\ [][NextRoads]_vars

\* Project registry: selection and creation over partitions that exist
\* when the session starts.
NameInputs == {"", "alpha", "b", "b.csv", "default"}

InitProjects ==
    /\ InitSession
    /\ files \in {NoFiles,
                  [NoFiles EXCEPT !["alpha"] = Some(<<>>)],
                  [NoFiles EXCEPT !["alpha"] = Some(<<>>),
                                  !["default"] = Some(<<>>)]}
    /\ roads_file = None /\ road_cache = None

NextProjects ==
    \/ ScriptRun
    \/ \E p \in ProjectNames : SelectProject(p)
    \/ \E name \in NameInputs : CreateProject(name)
    \/ \E sp \in {"moth"} : SubmitQuick(sp, MaxRecords)

SpecProjects == InitProjects /\ [][NextProjects]_vars

\* Project registry whose partitions can disappear under the session.
NextRegistry ==
    \/ ScriptRun
    \/ \E p \in ProjectNames : SelectProject(p)
    \/ \E p \in ProjectNames : PartitionRemoved(p)
    \/ \E name \in NameInputs : CreateProject(name)
    \/ \E sp \in {"moth"} : Len(appended) < MaxRecords /\ SubmitQuick(sp, MaxRecords)

SpecRegistry == InitProjects /\ [][NextRegistry]_vars

(***************************************************************************)
(* Properties                                                              *)
(***************************************************************************)
Canonical == [lat |-> selected_lat, lon |-> selected_lon]
Mirror == [lat |-> input_lat, lon |-> input_lon]
Point(c) == [lat |-> Some(c.lat), lon |-> Some(c.lon)]

\* a run serving the event kind is about to execute
Serving(kind) == pending /\ trigger.kind = kind

\* the run serves a click and st_folium reports that click to the script
ClickReported == Serving("click") /\ last_clicked' = last_clicked

\* C1: every record appended by a submission (quick or detailed form)
\* carries as lat/lon the canonical coordinate as it stood when the form
\* was processed.
C1_SubmissionStoresCanonical ==
    submitted # None =>
        /\ submitted[1].rec.lat = submitted[1].sel_lat
        /\ submitted[1].rec.lon = submitted[1].sel_lon

\* C2 (as claimed): a reported click within 1e-6 of the canonical
\* coordinate in both components changes nothing and requests no redraw;
\* any other click overwrites the canonical coordinate and the mirror and
\* requests a redraw.
C2_ClickToleranceOriginal ==
    [][ClickReported =>
        LET c == last_clicked[1]
            within == /\ Abs(c.lat - selected_lat[1]) <= 10
                      /\ Abs(c.lon - selected_lon[1]) <= 10
        IN IF within
           THEN Canonical' = Canonical /\ Mirror' = Mirror /\ ~pending'
           ELSE Canonical' = Point(c) /\ Mirror' = Point(c) /\ pending'
      ]_vars

\* C2 (amended): as above, except that a click with a zero latitude or a
\* zero longitude is ignored like a click within the tolerance.
C2_ClickTolerance ==
    [][ClickReported =>
        LET c == last_clicked[1]
            within == /\ Abs(c.lat - selected_lat[1]) <= 10
                      /\ Abs(c.lon - selected_lon[1]) <= 10
        IN IF within \/ c.lat = 0 \/ c.lon = 0
           THEN Canonical' = Canonical /\ Mirror' = Mirror /\ ~pending'
           ELSE Canonical' = Point(c) /\ Mirror' = Point(c) /\ pending'
      ]_vars

\* a click outside the tolerance (by 1.1e-6 in latitude only) has been
\* applied and its redraw is pending
C2_Witness ==
    /\ pending /\ trigger = NoTrigger /\ last_clicked # None
    /\ Canonical = Point(last_clicked[1]) /\ Mirror = Canonical
    /\ render # None
    /\ render[1].center.lon = last_clicked[1].lon
    /\ Abs(render[1].center.lat - last_clicked[1].lat) = 11

\* C3: no sequence of clicks, manual inputs and submissions stores a record
\* with lat = 0 and lon = 0, and every map is built around a defined,
\* non-sentinel centre.
C3_NoSentinelStored ==
    /\ \A p \in ProjectNames :
         files[p] # None =>
            \A i \in DOMAIN files[p][1] :
               ~(files[p][1][i].lat = Some(0) /\ files[p][1][i].lon = Some(0))
    /\ render # None => ~(render[1].center.lat = 0 /\ render[1].center.lon = 0)

\* the most recent stored row with coordinates that are present and not
\* the sentinel (0,0), if any
RECURSIVE LastValid(_)
LastValid(rows) ==
    IF rows = <<>> THEN None
    ELSE LET r == rows[Len(rows)]
         IN IF r.lat # None /\ r.lon # None /\ ~(r.lat = Some(0) /\ r.lon = Some(0))
            THEN Some(r)
            ELSE LastValid(SubSeq(rows, 1, Len(rows) - 1))

\* C4: the first run of a session seeds the canonical coordinate with the
\* most recent stored record whose coordinates are present and not (0,0),
\* and with the default point only when there is none (a single zero
\* component of the seed is then replaced by the guard).
C4_SeedFromLastValid ==
    (~pending /\ last_clicked = None) =>
        LET v == LastValid(files["default"][1])
        IN IF v = None
           THEN Canonical = [lat |-> Some(DEFAULT_LAT), lon |-> Some(DEFAULT_LON)]
           ELSE Canonical =
                  [lat |-> IF v[1].lat = Some(0) THEN Some(DEFAULT_LAT) ELSE v[1].lat,
                   lon |-> IF v[1].lon = Some(0) THEN Some(DEFAULT_LON) ELSE v[1].lon]

\* C5: after N appends to a partition that was empty or absent, load
\* returns exactly the N appended records in order, and every append
\* keeps the rows stored before it as a prefix.
C5_AppendMonotonic ==
    /\ [](LET df == load_data(files, "default")
          IN /\ Len(df) = Len(appended)
             /\ \A i \in DOMAIN df :
                  /\ df[i].lat = appended[i].lat
                  /\ df[i].lon = appended[i].lon
                  /\ df[i].species = appended[i].species)
    /\ [][LET old == load_data(files, "default")
              new == load_data(files', "default")
          IN Len(new) >= Len(old) /\ SubSeq(new, 1, Len(old)) = old]_vars

\* three records, not all alike, have been appended and are stored
C5_Witness ==
    /\ ~pending
    /\ Len(appended) = 3
    /\ appended[1] # appended[2] /\ appended[2] # appended[3]
    /\ Len(load_data(files, "default")) = 3

\* the upload was parsed and lacks a required column
LacksRequired(up) ==
    up # None /\ up[1].ok
    /\ ~({"date", "time", "lat", "lon", "species"} \subseteq up[1].cols)

\* C6: while the uploaded batch lacks a required column, no step changes
\* the stored partitions, and every run reports the schema error and
\* offers neither merge nor overwrite.
C6_ImportRejected ==
    [][LacksRequired(uploaded) /\ uploaded' = uploaded =>
        /\ files' = files
        /\ pending => /\ "schema_error" \in msgs'
                      /\ buttons' \cap {"merge", "overwrite"} = {}
      ]_vars

\* a batch without the species column was rejected over a stored partition
C6_Witness ==
    /\ ~pending
    /\ LacksRequired(uploaded)
    /\ "species" \notin uploaded[1].cols
    /\ Len(uploaded[1].rows) > 0
    /\ "schema_error" \in msgs
    /\ files["default"] # None /\ files["default"][1] # <<>>

\* C7: a manual input sets the canonical coordinate to the entered values
\* at once, whatever the size of the change; the run that follows requests
\* a redraw only when the map's click handler overwrites the coordinate.
C7_ManualInputOverrides ==
    /\ [][(~pending /\ pending' /\ trigger'.kind = "input") =>
            /\ Mirror' # Mirror
            /\ Canonical' = Mirror']_vars
    /\ [][(Serving("input") /\ pending') =>
            /\ last_clicked # None
            /\ Canonical' = Point(last_clicked[1])]_vars

\* a manual input 1e-6 away from the coordinate the map shows has been
\* applied
C7_Witness ==
    /\ Serving("input")
    /\ Canonical = Mirror
    /\ render # None
    /\ selected_lon = Some(render[1].center.lon)
    /\ Abs(selected_lat[1] - render[1].center.lat) = 10

\* C8 (as claimed): after a manual input that sets lon to 0 with lat
\* non-zero, the next map is built around the default point.
C8_GuardResetsBothOriginal ==
    [][(Serving("input") /\ selected_lon = Some(0) /\ selected_lat # Some(0)) =>
        render'[1].center = [lat |-> DEFAULT_LAT, lon |-> DEFAULT_LON]]_vars

\* C8 (amended): after such an input the next map is built around the
\* entered lat and the default lon: the guard resets only the zero
\* component.
C8_GuardResetsLon ==
    [][(Serving("input") /\ selected_lon = Some(0) /\ selected_lat # Some(0)) =>
        render'[1].center = [lat |-> selected_lat[1], lon |-> DEFAULT_LON]]_vars

\* the map was built after lon was set to 0 by hand, lat being 35.0
C8_Witness ==
    /\ ~pending
    /\ input_lon = Some(0) /\ input_lat = Some(350000000)
    /\ render # None
    /\ render[1].center = [lat |-> 350000000, lon |-> DEFAULT_LON]

\* C9: a download request for a box calls the geodata service if and only
\* if neither span of the box exceeds 0.5 degree; a rejected request
\* changes neither the overlay file nor the cache.
C9_BboxGuard ==
    [][(Serving("download") /\ map_bounds # None) =>
        LET b == map_bounds[1]
            fits == /\ Abs(b.north - b.south) <= 5000000
                    /\ Abs(b.east - b.west) <= 5000000
        IN /\ (net' # None) <=> fits
           /\ fits => net'[1].box = b
           /\ ~fits => /\ roads_file' = roads_file
                       /\ road_cache' = road_cache
                       /\ "too_large" \in msgs'
                       /\ ~pending'
      ]_vars

\* the service was called for a box spanning exactly 0.5 degree of latitude
C9_Witness ==
    /\ net # None
    /\ net[1].box.north - net[1].box.south = 5000000

NoneConvertible(es) ==
    \A i \in DOMAIN es : ~(es[i].type = "way" /\ es[i].geometry)

Failed(resp) == resp.kind # "ok" \/ NoneConvertible(resp.elements)

\* C10: a download that fails or yields no convertible feature reports a
\* non-success status and changes neither the overlay file nor the cache.
C10_FailedDownloadKeepsOverlay ==
    [][(Serving("download") /\ net' # None /\ Failed(net'[1].resp)) =>
        /\ roads_file' = roads_file
        /\ road_cache' = road_cache
        /\ msgs' \cap {"not_found", "download_error"} # {}
        /\ "downloaded" \notin msgs'
        /\ ~pending'
      ]_vars

\* a download over an existing overlay returned elements, none convertible
C10_Witness ==
    /\ ~pending
    /\ net # None /\ net[1].resp.kind = "ok"
    /\ net[1].resp.elements # <<>> /\ NoneConvertible(net[1].resp.elements)
    /\ "not_found" \in msgs
    /\ roads_file # None /\ road_cache = Some(roads_file)

\* C11: whenever load_road_geojson has a cached value, that value is the
\* content of the overlay file (a cached "absent" means no file); the file
\* changes only by a successful download, which stores the converted
\* features of that answer, and by a delete, which removes it.
C11_CacheMatchesFile ==
    /\ [](road_cache # None => road_cache[1] = roads_file)
    /\ [][roads_file' # roads_file =>
            \/ /\ Serving("download") /\ net' # None
               /\ roads_file' = Some(SelectSeq(net'[1].resp.elements,
                                     LAMBDA e : e.type = "way" /\ e.geometry))
               /\ roads_file' # Some(<<>>)
            \/ Serving("delete") /\ roads_file' = None
       ]_vars

\* a download in this session stored a new overlay, and that overlay is
\* what the cache now holds
C11_Witness ==
    /\ ~pending
    /\ roads_file # None
    /\ roads_file[1][1].id = "w2"
    /\ road_cache = Some(roads_file)

\* C12: a run serving create(name) with a non-empty name that is not in the
\* registry leaves an empty partition for name, name listed by
\* get_existing_projects and name the current project; with an empty or a
\* listed name it leaves the partitions and the current project unchanged.
C12_CreateProject ==
    [][Serving("create") =>
          LET name == trigger.arg
          IN IF name # "" /\ name \notin Range(get_existing_projects(files))
             THEN /\ files'[name] = Some(<<>>)
                  /\ name \in Range(get_existing_projects(files'))
                  /\ current_project' = Some(name)
             ELSE /\ files' = files
                  /\ current_project' = current_project
      ]_vars

\* C13: a run serving the merge button on a valid batch leaves the partition
\* holding the rows stored before followed by the rows of the batch, each in
\* its order, nothing dropped or de-duplicated.
C13_MergeConcatenates ==
    [][Serving("merge") /\ uploaded # None /\ uploaded[1].ok
          /\ required_cols \subseteq uploaded[1].cols =>
          LET old == load_data(files, current_project'[1])
              new == load_data(files', current_project'[1])
          IN /\ new = old \o uploaded[1].rows
             /\ Len(new) = Len(old) + Len(uploaded[1].rows)
      ]_vars

\* a batch of two different rows was merged into a partition that already
\* held exactly that batch: it is stored twice
C13_Witness ==
    /\ pending /\ "merged" \in msgs
    /\ uploaded # None /\ Len(uploaded[1].rows) = 2
    /\ uploaded[1].rows[1] # uploaded[1].rows[2]
    /\ load_data(files, current_project[1]) = uploaded[1].rows \o uploaded[1].rows

\* C14: a run that finds the session's current project missing from
\* get_existing_projects (and no project picked or created in that run) makes
\* the first listed project current; every run that goes on to the store
\* operations does so with a current project that is listed.
C14_UnknownProjectFallsBack ==
    [][pending =>
          LET existing_projects == get_existing_projects(files)
          IN /\ ( /\ current_project # None
                  /\ current_project[1] \notin Range(existing_projects)
                  /\ trigger.kind \notin {"select", "create"}
                  => current_project' = Some(existing_projects[1]) )
             /\ ( "created" \notin msgs'
                  => current_project'[1] \in Range(existing_projects) )
      ]_vars

\* the partition of the current project has been removed and a submission
\* is about to be served: the run's selection has to fall back, and the
\* record goes to the first listed project
C14_Witness ==
    /\ Serving("quick")
    /\ current_project = Some("default")
    /\ files["default"] = None
    /\ get_existing_projects(files) = <<"alpha">>

\* C15: get_existing_projects never returns an empty list: it returns the
\* names of exactly the partitions that exist, and the single name "default"
\* when no partition exists.
C15_ListsAllPartitions ==
    LET existing_projects == get_existing_projects(files)
        partitions == {p \in ProjectNames : files[p] # None}
    IN /\ existing_projects # <<>>
       /\ IF partitions = {} THEN existing_projects = <<"default">>
          ELSE Range(existing_projects) = partitions

\* C16: a run serving a submission of either form with an empty species
\* leaves the files as they are and reports the missing species; with a
\* non-empty species it appends exactly one record, of that species, to the
\* current partition.
C16_SpeciesGatesAppend ==
    [][Serving("quick") \/ Serving("manual") =>
          LET old == load_data(files, current_project'[1])
              new == load_data(files', current_project'[1])
          IN IF trigger.arg = ""
             THEN files' = files /\ "species_missing" \in msgs'
             ELSE /\ Len(new) = Len(old) + 1
                  /\ SubSeq(new, 1, Len(old)) = old
                  /\ new[Len(new)].species = Some(trigger.arg)
                  /\ \A p \in ProjectNames \ {current_project'[1]} :
                        files'[p] = files[p]
      ]_vars

\* the detailed form stored a second record, with changed notes and with a
\* zero latitude typed into the number input
C16_Witness ==
    /\ submitted # None /\ submitted[1].form = "manual"
    /\ Len(load_data(files, current_project[1])) = 2
    /\ load_data(files, current_project[1])[2].lat = Some(0)
    /\ load_data(files, current_project[1])[2].notes = Some("dusk")

C18_NoMarkerForSentinel ==
    [][pending /\ ~pending' =>
          render'[1].markers =
              SelectSeq(load_data(files, current_project'[1]),
                        LAMBDA r : /\ r.lat # None /\ r.lon # None
                                   /\ ~(r.lat = Some(0) /\ r.lon = Some(0)))
      ]_vars

\* C19: as long as the second session has saved nothing, the partition holds
\* every record this session appended, in order; rows stored before a step
\* are missing after it only when the step is the second session's save and
\* the frame it had loaded was no longer what the file held.  (That such a
\* save happens is C19_Witness.)
C19_LostUpdateOnlyAcrossSessions ==
    /\ [](other.saved = <<>> =>
            LET df == load_data(files, "default")
            IN /\ Len(df) = Len(appended)
               /\ \A i \in DOMAIN df : df[i].species = appended[i].species
                                       /\ df[i].lat = appended[i].lat
                                       /\ df[i].lon = appended[i].lon)
    /\ [][LET old == load_data(files, "default")
              new == load_data(files', "default")
          IN \/ Len(new) >= Len(old) /\ SubSeq(new, 1, Len(old)) = old
             \/ /\ other.loaded # None /\ other'.loaded = None
                /\ other.loaded[1].df # old
      ]_vars

\* both sessions have completed one append each and the partition holds one
\* row: the second session's, this session's record is lost
C19_Witness ==
    /\ ~pending
    /\ Len(appended) = 1 /\ Len(other.saved) = 1 /\ other.loaded = None
    /\ Len(load_data(files, "default")) = 1
    /\ load_data(files, "default")[1].species = Some("owlet")

\* C20: a run that was requested by st.rerun() (not by a user event) never
\* requests another run, so a map click is followed by at most one redraw;
\* and whenever a run is pending the app comes to rest with none pending.
C20_Quiesces ==
    /\ [][pending /\ trigger.kind = "none" => ~pending']_vars
    /\ (pending ~> ~pending)

\* the redraw after an applied click has run: the component still reports
\* the click, the canonical coordinate is that point, nothing is pending
C20_Witness ==
    /\ ~pending
    /\ last_clicked # None
    /\ Canonical = Point(last_clicked[1])
    /\ selected_lat # Some(DEFAULT_LAT)

\* C21: when the map still reports an earlier click p and the user has
\* edited the number inputs to q (no zero component, more than the tolerance
\* away from p), the run serving the edit leaves the canonical coordinate at
\* q and builds the map around q.
C21_LaterInputWins ==
    [][( /\ Serving("input")
         /\ last_clicked # None /\ last_clicked' = last_clicked
         /\ selected_lat # Some(0) /\ selected_lon # Some(0)
         /\ \/ Abs(last_clicked[1].lat - selected_lat[1]) > CLICK_TOLERANCE
            \/ Abs(last_clicked[1].lon - selected_lon[1]) > CLICK_TOLERANCE )
        => /\ Canonical' = Canonical
           /\ render'[1].center = [lat |-> selected_lat[1], lon |-> selected_lon[1]]
      ]_vars

\* C22: whenever the last run rendered the record forms and no run is
\* pending (a submission can be made), the number-input mirror equals the
\* canonical coordinate.
C22_MirrorEqualsCanonical ==
    (~pending /\ "quick" \in buttons /\ "manual" \in buttons)
        => Mirror = Canonical

====
